---- MODULE Spec2Model ----
(***************************************************************************)
(* pwnlib/atexception.py: a registry of callbacks that the replacement of  *)
(* sys.excepthook runs when an exception reaches the top level.            *)
(*                                                                         *)
(* The registry _handlers is a dict func -> (args, kwargs); it is modelled *)
(* as the set of its items, records [func, args, kwargs], and the dict     *)
(* operations are written out on that set.  A callable is an identity in   *)
(* Funcs (hashable, as a dict key must be); what a callable does when it   *)
(* is invoked is the environment's choice: it returns, raises SystemExit   *)
(* or raises another exception, and in SpecReentrant it may first call     *)
(* register/unregister itself.                                             *)
(***************************************************************************)
EXTENDS Integers, Sequences, FiniteSets, TLC

\* ------------------------------------------------------------------ bounds
NFuncs == 2        \* distinct callables the program may register
NExc == 1          \* distinct unhandled exceptions (values of the triple)
MaxNested == 1     \* register/unregister calls callbacks make per crash event
MaxDepth == 2      \* frames a failing callback's call had gone deep

Funcs == 1..NFuncs
None == 0                            \* Python's None where a callable may stand
ArgTuples == {<<>>, <<7>>}           \* *args
KwDicts == {{}, {<<"k", 8>>}}        \* **kwargs, as a set of (name, value) items
Triples == {[typ |-> "KeyError", val |-> v, tb |-> <<"module">>] : v \in 1..NExc}
NoTriple == [typ |-> "None", val |-> 0, tb |-> <<>>]
NoExc == "NoExc"
RunFrame == "_run_handlers:49"       \* the frame of the call func(*args, **kwargs)
FuncFrame == "func"                  \* the frame of the callback that raised

VARIABLES
    _handlers,     \* the dict's items: set of [func, args, kwargs]
    preload,       \* history: sys.excepthook before the import, or "absent"
    _oldhook,      \* the hook captured at import, or "None"
    excepthook,    \* sys.excepthook
    pc,            \* where the program is
    exc_args,      \* (typ, val, tb) the runtime passed to _newhook
    it,            \* the iterable _handlers.items() of the running for loop
    visited,       \* keys the for loop has already yielded
    cur,           \* the callback being executed, or None
    nested,        \* register/unregister calls made by callbacks in this event
    propagated,    \* the exception that left _newhook, or NoExc
    ret,           \* value returned by the register/unregister call just made
    exc,           \* exception raised by the register/unregister call just made
    calls,         \* history: invocations func(*args, **kwargs) of this event
    outs,          \* history: how each finished invocation ended
    reports,       \* history: what print_exception wrote in this event
    raised,        \* history: sys.exc_info() of each callback failure of this event
    oldcalls,      \* history: argument triples _oldhook was called with
    oldout,        \* history: how the call of _oldhook ended in this event
    lastop,        \* history: the last register/unregister on each callable
    atstart,       \* history: keys registered when the crash event started
    removed,       \* history: keys unregistered during the crash event
    added,         \* history: keys newly registered during the crash event
    regstart,      \* history: the dict's items when the crash event started
    prev           \* history: what the crash event before this one invoked

vars == <<_handlers, preload, _oldhook, excepthook, pc, exc_args, it, visited, cur,
          nested, propagated, ret, exc, calls, outs, reports, raised, oldcalls,
          oldout,
          lastop, atstart, removed, added,
          regstart, prev>>

\* ------------------------------------------------------------ dict helpers
Keys(H) == {e.func : e \in H}
Entry(f, a, kw) == [func |-> f, args |-> a, kwargs |-> kw]

\* Faulty variant of SetItem: the new item is added beside the old one
SetItem_append(H, f, a, kw) == H \cup {Entry(f, a, kw)}

\* _handlers[func] = (args, kwargs): the item of func, if any, is replaced
SetItem(H, f, a, kw) == {e \in H : e.func # f} \cup {Entry(f, a, kw)}

\* Faulty variant of DelItem: the dict is emptied
DelItem_clear(H, f) == {}

\* del _handlers[func]
DelItem(H, f) == {e \in H : e.func # f}

\* --------------------------------------------------------- register (18-28)
\* Faulty variant of register: the arguments are not stored
register_drop_args(H, func, args, kwargs) ==
    [handlers |-> SetItem(H, func, <<>>, {}), ret |-> func, exc |-> NoExc]

\* Faulty variant of register: line 28 is missing
register_returns_none(H, func, args, kwargs) ==
    [handlers |-> SetItem(H, func, args, kwargs), ret |-> None, exc |-> NoExc]

register(H, func, args, kwargs) ==
    [handlers |-> SetItem(H, func, args, kwargs), ret |-> func, exc |-> NoExc]

\* ------------------------------------------------------- unregister (30-37)
\* Faulty variant of unregister: the item is not deleted
unregister_keeps(H, func) == [handlers |-> H, ret |-> None, exc |-> NoExc]

\* Faulty variant of unregister: line 36 is missing, del raises on a missing key
unregister_unguarded(H, func) ==
    IF func \in Keys(H)
    THEN [handlers |-> DelItem(H, func), ret |-> None, exc |-> NoExc]
    ELSE [handlers |-> H, ret |-> None, exc |-> "KeyError"]

unregister(H, func) ==
    IF func \in Keys(H)
    THEN [handlers |-> DelItem(H, func), ret |-> None, exc |-> NoExc]
    ELSE [handlers |-> H, ret |-> None, exc |-> NoExc]

\* ------------------------------------------------------------- import time
\* lines 13-16: _oldhook = sys.excepthook if the attribute exists, else None
CaptureOldhook(slot) == IF slot # "absent" THEN slot ELSE "None"

NoOp == [op |-> "none", args |-> <<>>, kwargs |-> {}, over |-> FALSE]

\* No crash event to compare the running one with
NoPrev == [valid |-> FALSE, invoked |-> {}]

NoIter == [kind |-> "none", snap |-> {}, used |-> 0, dirty |-> FALSE]

Init ==
    /\ \E slot \in {"absent", "prevhook"} :
          preload = slot /\ _oldhook = CaptureOldhook(slot)
    /\ excepthook = "_newhook"
    /\ _handlers = {}
    /\ pc = "idle"
    /\ exc_args = NoTriple
    /\ it = NoIter
    /\ visited = {}
    /\ cur = None
    /\ nested = 0
    /\ propagated = NoExc
    /\ ret = None
    /\ exc = NoExc
    /\ calls = <<>>
    /\ outs = <<>>
    /\ reports = <<>>
    /\ raised = <<>>
    /\ oldcalls = <<>>
    /\ oldout = "none"
    /\ lastop = [f \in Funcs |-> NoOp]
    /\ atstart = {}
    /\ removed = {}
    /\ added = {}
    /\ regstart = {}
    /\ prev = NoPrev

\* ------------------------------------------------- the two public functions
\* A call of register: the dict assignment, the returned value, and the
\* history of the last operation on func.
DoRegister(func, args, kwargs) ==
    LET r == register(_handlers, func, args, kwargs)
    IN  /\ _handlers' = r.handlers
        /\ ret' = r.ret
        /\ exc' = r.exc
        /\ lastop' = [lastop EXCEPT ![func] =
                        [op |-> "register", args |-> args, kwargs |-> kwargs,
                         over |-> /\ func \in Keys(_handlers)
                                  /\ Entry(func, args, kwargs) \notin _handlers]]

DoUnregister(func) ==
    LET r == unregister(_handlers, func)
    IN  /\ _handlers' = r.handlers
        /\ ret' = r.ret
        /\ exc' = r.exc
        /\ lastop' = [lastop EXCEPT ![func] =
                        [op |-> "unregister", args |-> <<>>, kwargs |-> {},
                         over |-> func \in Keys(_handlers)]]

\* register/unregister called by the program in normal execution
Register(func, args, kwargs) ==
    /\ pc = "idle"
    /\ DoRegister(func, args, kwargs)
    /\ prev' = IF _handlers' = _handlers THEN prev ELSE NoPrev
    /\ UNCHANGED <<preload, _oldhook, excepthook, pc, exc_args, it, visited, cur, nested,
                   propagated, calls, outs, reports, raised, oldcalls, oldout, atstart, removed, added, regstart>>

Unregister(func) ==
    /\ pc = "idle"
    /\ DoUnregister(func)
    /\ prev' = IF _handlers' = _handlers THEN prev ELSE NoPrev
    /\ UNCHANGED <<preload, _oldhook, excepthook, pc, exc_args, it, visited, cur, nested,
                   propagated, calls, outs, reports, raised, oldcalls, oldout, atstart, removed, added, regstart>>

\* ---------------------------------------------------------- the crash event
\* An exception reaches the top level: the runtime calls sys.excepthook, which
\* line 68 set to _newhook, with the exception's (typ, val, tb).
Crash(t) ==
    /\ pc = "idle"
    /\ excepthook = "_newhook"
    /\ pc' = "newhook"
    /\ exc_args' = t
    /\ atstart' = Keys(_handlers)
    /\ regstart' = _handlers
    /\ ret' = None
    /\ exc' = NoExc
    /\ UNCHANGED <<_handlers, preload, _oldhook, excepthook, it, visited, cur, nested,
                   propagated, calls, outs, reports, raised, oldcalls, oldout, lastop, removed, added, prev>>

\* line 47, _handlers.items(): under Python 2 a list holding a copy of the
\* items, under Python 3 a view of the live dict whose iterator remembers the
\* dict's size (used) and fails when the size has changed.
ItemsKinds == {"list", "view"}

items(H, kind) ==
    IF kind = "list"
    THEN [kind |-> "list", snap |-> H, used |-> 0, dirty |-> FALSE]
    ELSE [kind |-> "view", snap |-> {}, used |-> Cardinality(H), dirty |-> FALSE]

\* line 66: _run_handlers() is entered and the for loop creates its iterator
EnterRunHandlers ==
    /\ \E kind \in ItemsKinds : it' = items(_handlers, kind)
    /\ visited' = {}
    /\ pc' = "run_handlers"

\* Faulty variant of OldhookArgs: the traceback is not passed on
OldhookArgs_no_tb(typ, val, tb) == <<typ, val, <<>> >>

\* line 65: the arguments _newhook hands to _oldhook
OldhookArgs(typ, val, tb) == <<typ, val, tb>>

\* Faulty variant of NewhookNoOldhook: line 64 is missing, and calling None
\* raises TypeError
NewhookNoOldhook_unguarded ==
    /\ pc = "newhook"
    /\ _oldhook = "None"
    /\ pc' = "escaped"
    /\ propagated' = "TypeError"
    /\ UNCHANGED <<_handlers, preload, _oldhook, excepthook, exc_args, it, visited,
                   cur, nested, ret, exc, calls, outs, reports, raised, oldcalls, oldout, lastop,
                   atstart, removed, added, regstart, prev>>

\* line 64: `if _oldhook:` is false, _run_handlers() follows directly
NewhookNoOldhook ==
    /\ pc = "newhook"
    /\ _oldhook = "None"
    /\ EnterRunHandlers
    /\ UNCHANGED <<_handlers, preload, _oldhook, excepthook, exc_args, cur, nested,
                   propagated, ret, exc, calls, outs, reports, raised, oldcalls, oldout, lastop,
                   atstart, removed, added, regstart, prev>>

\* lines 64-66: _oldhook(typ, val, tb) is called and returns
OldhookReturns ==
    /\ pc = "newhook"
    /\ _oldhook # "None"
    /\ oldcalls' = Append(oldcalls,
                          OldhookArgs(exc_args.typ, exc_args.val, exc_args.tb))
    /\ oldout' = "return"
    /\ EnterRunHandlers
    /\ UNCHANGED <<_handlers, preload, _oldhook, excepthook, exc_args, cur, nested,
                   propagated, ret, exc, calls, outs, reports, raised, lastop, atstart,
                   removed, added, regstart, prev>>

\* Faulty variant of OldhookRaises: the call of line 65 is inside a try that
\* swallows the failure, and line 66 runs
OldhookRaises_caught ==
    /\ pc = "newhook"
    /\ _oldhook # "None"
    /\ oldcalls' = Append(oldcalls,
                          OldhookArgs(exc_args.typ, exc_args.val, exc_args.tb))
    /\ oldout' = "raise"
    /\ EnterRunHandlers
    /\ UNCHANGED <<_handlers, preload, _oldhook, excepthook, exc_args, cur,
                   nested, propagated, ret, exc, calls, outs, reports, raised,
                   lastop, atstart, removed, added, regstart, prev>>

\* line 65: _oldhook(typ, val, tb) raises; no try surrounds the call
OldhookRaises ==
    /\ pc = "newhook"
    /\ _oldhook # "None"
    /\ oldcalls' = Append(oldcalls,
                          OldhookArgs(exc_args.typ, exc_args.val, exc_args.tb))
    /\ oldout' = "raise"
    /\ pc' = "escaped"
    /\ propagated' = "OldhookError"
    /\ UNCHANGED <<_handlers, preload, _oldhook, excepthook, exc_args, it, visited, cur,
                   nested, ret, exc, calls, outs, reports, raised, lastop, atstart,
                   removed, added, regstart, prev>>

\* ------------------------------------------------- _run_handlers (39-56)
\* The items the for statement may yield next.  The order is arbitrary.  A
\* list is walked to its end.  A view's iterator first compares the dict's
\* size with the size it remembers.
Candidates ==
    IF it.kind = "list"
    THEN {e \in it.snap : e.func \notin visited}
    ELSE IF Cardinality(_handlers) # it.used
         THEN {}
         ELSE {e \in _handlers : e.func \notin visited}

\* the size check of a view's iterator fails
SizeChanged == it.kind = "view" /\ Cardinality(_handlers) # it.used

\* Faulty variant of ForNext: an item is taken out of the dict when it is run
ForNext_consumes(e) ==
    /\ pc = "run_handlers"
    /\ e \in Candidates
    /\ calls' = Append(calls, e)
    /\ visited' = visited \cup {e.func}
    /\ cur' = e.func
    /\ pc' = "callback"
    /\ _handlers' = DelItem(_handlers, e.func)
    /\ UNCHANGED <<preload, _oldhook, excepthook, exc_args, it, nested,
                   propagated, ret, exc, outs, reports, raised, oldcalls, oldout, lastop,
                   atstart, removed, added, regstart, prev>>

\* line 47 yields an item, line 49 calls func(*args, **kwargs)
ForNext(e) ==
    /\ pc = "run_handlers"
    /\ e \in Candidates
    /\ calls' = Append(calls, e)
    /\ visited' = visited \cup {e.func}
    /\ cur' = e.func
    /\ pc' = "callback"
    /\ UNCHANGED <<_handlers, preload, _oldhook, excepthook, exc_args, it, nested,
                   propagated, ret, exc, outs, reports, raised, oldcalls, oldout, lastop,
                   atstart, removed, added, regstart, prev>>

\* line 47: the iterator is exhausted; _run_handlers and _newhook return.
\* After keys were deleted and inserted under a view (dirty) the iterator can
\* stop before it has yielded every item.
ForEnd ==
    /\ pc = "run_handlers"
    /\ ~SizeChanged
    /\ IF it.dirty THEN TRUE ELSE Candidates = {}
    /\ pc' = "returned"
    /\ UNCHANGED <<_handlers, preload, _oldhook, excepthook, exc_args, it, visited, cur,
                   nested, propagated, ret, exc, calls, outs, reports, raised, oldcalls, oldout,
                   lastop, atstart, removed, added, regstart, prev>>

\* line 47: the view's iterator raises RuntimeError ("dictionary changed size
\* during iteration"; on newer interpreters also "dictionary keys changed
\* during iteration" when it finds more items than the dict had).  The for
\* statement is outside the try of lines 48-56, and _newhook has none.
ForRaises ==
    /\ pc = "run_handlers"
    /\ \/ SizeChanged
       \/ it.dirty /\ Candidates # {} /\ Len(calls) >= it.used
    /\ pc' = "escaped"
    /\ propagated' = "RuntimeError"
    /\ UNCHANGED <<_handlers, preload, _oldhook, excepthook, exc_args, it, visited, cur,
                   nested, ret, exc, calls, outs, reports, raised, oldcalls, oldout, lastop,
                   atstart, removed, added, regstart, prev>>

\* How a callback's call can end
Outcomes == {"return", "SystemExit", "error"}

\* Faulty variant of Handle: the last clause prints and raises again
Handle_reraise(outcome) ==
    CASE outcome = "return" -> "continue"
      [] outcome = "SystemExit" -> "pass"
      [] OTHER -> "raise"

\* Faulty variant of Handle: lines 50-51 are missing, so the bare except of
\* line 52 takes SystemExit too
Handle_exit_printed(outcome) ==
    CASE outcome = "return" -> "continue"
      [] OTHER -> "print_exception"

\* Faulty variant of Handle: lines 50-51 are missing and line 52 reads
\* `except Exception:`, which SystemExit is not
Handle_exit_escapes(outcome) ==
    CASE outcome = "return" -> "continue"
      [] outcome = "SystemExit" -> "raise"
      [] OTHER -> "print_exception"

\* Faulty variant of Handle: line 52 is followed by `pass` only
Handle_silent(outcome) ==
    CASE outcome = "return" -> "continue"
      [] OTHER -> "pass"

\* lines 48-56: what the try statement does with the way the call ended
Handle(outcome) ==
    CASE outcome = "return" -> "continue"
      [] outcome = "SystemExit" -> "pass"              \* lines 50-51
      [] OTHER -> "print_exception"                    \* lines 52-56

\* Faulty variant of tb_next: the traceback is printed from its first frame
tb_next_whole(tb) == tb

\* tb.tb_next: the traceback without its first frame
tb_next(tb) == Tail(tb)

\* The frames of a traceback caught at line 52: the frame of _run_handlers at
\* line 49 first, then the frames the callback's call had gone depth deep
\* (none when the callable is not Python code).
Frame(i) == IF i = 1 THEN FuncFrame ELSE FuncFrame \o ">" \o ToString(i)
Traceback(depth) == <<RunFrame>> \o [i \in 1..depth |-> Frame(i)]

\* line 55: typ, val, tb = sys.exc_info()
ExcInfo(func, typ, depth) ==
    [typ |-> typ, val |-> func, tb |-> Traceback(depth)]

\* line 56: traceback.print_exception(typ, val, tb.tb_next), for callback func
ReportOf(func, info) ==
    [func |-> func, typ |-> info.typ, val |-> info.val, tb |-> tb_next(info.tb)]

\* lines 55-56 for an exception raised in the callback's own frame
Report(func) == ReportOf(func, ExcInfo(func, "Error", 1))

\* line 49 ends: the callback returns or raises
CallbackEnds(outcome) ==
    /\ pc = "callback"
    /\ outs' = Append(outs, outcome)
    /\ cur' = None
    /\ LET h == Handle(outcome)
       IN  /\ reports' = IF h = "print_exception"
                         THEN Append(reports, Report(cur))
                         ELSE reports
           /\ raised' = IF outcome = "error"
                        THEN Append(raised, ExcInfo(cur, "Error", 1))
                        ELSE raised
           /\ IF h \in {"continue", "pass", "print_exception"}
              THEN pc' = "run_handlers" /\ propagated' = propagated
              ELSE pc' = "escaped" /\ propagated' = outcome
    /\ UNCHANGED <<_handlers, preload, _oldhook, excepthook, exc_args, it, visited,
                   nested, ret, exc, calls, oldcalls, oldout, lastop, atstart, removed, added, regstart, prev>>

\* Types of the exceptions a callback raises, other than SystemExit
ErrTypes == {"ValueError", "TypeError"}

\* line 49 ends: the callback raises typ from depth frames below the call
CallbackRaises(typ, depth) ==
    /\ pc = "callback"
    /\ outs' = Append(outs, "error")
    /\ cur' = None
    /\ LET h == Handle("error")
           info == ExcInfo(cur, typ, depth)
       IN  /\ raised' = Append(raised, info)
           /\ reports' = IF h = "print_exception"
                         THEN Append(reports, ReportOf(cur, info))
                         ELSE reports
           /\ IF h \in {"continue", "pass", "print_exception"}
              THEN pc' = "run_handlers" /\ propagated' = propagated
              ELSE pc' = "escaped" /\ propagated' = typ
    /\ UNCHANGED <<_handlers, preload, _oldhook, excepthook, exc_args, it, visited,
                   nested, ret, exc, calls, oldcalls, oldout, lastop, atstart,
                   removed, added, regstart, prev>>

\* Faulty variant of Continue: the interceptor puts the previous hook back
Continue_uninstall ==
    /\ pc \in {"returned", "escaped"}
    /\ pc' = "idle"
    /\ exc_args' = NoTriple
    /\ it' = NoIter
    /\ visited' = {}
    /\ cur' = None
    /\ nested' = 0
    /\ propagated' = NoExc
    /\ calls' = <<>>
    /\ outs' = <<>>
    /\ reports' = <<>>
    /\ raised' = <<>>
    /\ oldcalls' = <<>>
    /\ oldout' = "none"
    /\ atstart' = {}
    /\ removed' = {}
    /\ added' = {}
    /\ regstart' = {}
    /\ excepthook' = _oldhook
    /\ UNCHANGED <<_handlers, preload, _oldhook, ret, exc, lastop, prev>>

\* _newhook has returned or raised; the runtime goes on (an interactive
\* interpreter returns to its prompt, a test harness to its next case).
Continue ==
    /\ pc \in {"returned", "escaped"}
    /\ pc' = "idle"
    /\ exc_args' = NoTriple
    /\ it' = NoIter
    /\ visited' = {}
    /\ cur' = None
    /\ nested' = 0
    /\ propagated' = NoExc
    /\ calls' = <<>>
    /\ outs' = <<>>
    /\ reports' = <<>>
    /\ raised' = <<>>
    /\ oldcalls' = <<>>
    /\ oldout' = "none"
    /\ atstart' = {}
    /\ removed' = {}
    /\ added' = {}
    /\ regstart' = {}
    /\ UNCHANGED <<_handlers, preload, _oldhook, excepthook, ret, exc, lastop, prev>>

\* Continue, with the history of the event that has ended kept for the next
\* one: the items it invoked, when it returned and no callback of it called
\* register or unregister.
ContinueRemember ==
    /\ pc \in {"returned", "escaped"}
    /\ pc' = "idle"
    /\ exc_args' = NoTriple
    /\ it' = NoIter
    /\ visited' = {}
    /\ cur' = None
    /\ nested' = 0
    /\ propagated' = NoExc
    /\ calls' = <<>>
    /\ outs' = <<>>
    /\ reports' = <<>>
    /\ raised' = <<>>
    /\ oldcalls' = <<>>
    /\ oldout' = "none"
    /\ atstart' = {}
    /\ removed' = {}
    /\ added' = {}
    /\ regstart' = {}
    /\ prev' = IF pc = "returned" /\ nested = 0
               THEN [valid |-> TRUE, invoked |-> {calls[i] : i \in DOMAIN calls}]
               ELSE NoPrev
    /\ UNCHANGED <<_handlers, preload, _oldhook, excepthook, ret, exc, lastop>>

\* ------------------------------------ callbacks that use the registry
\* A running callback calls register(func, ...).  A new key under a view makes
\* the iteration unreliable (dirty); a list is not affected.
NestedRegister(func, args, kwargs) ==
    /\ pc = "callback"
    /\ nested < MaxNested
    /\ nested' = nested + 1
    /\ DoRegister(func, args, kwargs)
    /\ it' = [it EXCEPT !.dirty =
                it.dirty \/ (it.kind = "view" /\ func \notin Keys(_handlers))]
    /\ added' = IF func \in Keys(_handlers) THEN added ELSE added \cup {func}
    /\ UNCHANGED <<preload, _oldhook, excepthook, pc, exc_args, visited, cur, propagated,
                   calls, outs, reports, raised, oldcalls, oldout, atstart, removed, regstart, prev>>

\* A running callback calls unregister(func).  Under a view the deleted key's
\* slot is gone: if the key is inserted again it is a new item for the iterator.
NestedUnregister(func) ==
    /\ pc = "callback"
    /\ nested < MaxNested
    /\ nested' = nested + 1
    /\ DoUnregister(func)
    /\ LET had == func \in Keys(_handlers)
       IN  /\ it' = [it EXCEPT !.dirty = it.dirty \/ (it.kind = "view" /\ had)]
           /\ visited' = IF it.kind = "view" /\ had
                         THEN visited \ {func} ELSE visited
           /\ removed' = IF had THEN removed \cup {func} ELSE removed
    /\ UNCHANGED <<preload, _oldhook, excepthook, pc, exc_args, cur, propagated, calls,
                   outs, reports, raised, oldcalls, oldout, atstart, added, regstart, prev>>

\* -------------------------------------------------------- specifications
\* Spec: register/unregister are called in normal execution only (spec.md
\* section 5), the previous hook returns, and callbacks end in any of the
\* three ways.
Next ==
    \/ \E f \in Funcs, a \in ArgTuples, kw \in KwDicts : Register(f, a, kw)
    \/ \E f \in Funcs : Unregister(f)
    \/ \E t \in Triples : Crash(t)
    \/ NewhookNoOldhook
    \/ OldhookReturns
    \/ \E e \in Candidates : ForNext(e)
    \/ ForEnd
    \/ \E o \in Outcomes : CallbackEnds(o)
    \/ Continue

Spec == Init /\ [][Next]_vars

\* SpecReentrant: callbacks may also call register/unregister while they run.
NextReentrant ==
    \/ Next
    \/ ForRaises
    \/ \E f \in Funcs, a \in ArgTuples, kw \in KwDicts : NestedRegister(f, a, kw)
    \/ \E f \in Funcs : NestedUnregister(f)

SpecReentrant == Init /\ [][NextReentrant]_vars

\* SpecHookFails: the previous hook may raise.
NextHookFails ==
    \/ Next
    \/ OldhookRaises

SpecHookFails == Init /\ [][NextHookFails]_vars

\* SpecTraceback: the failures of callbacks in full: every callback raises,
\* any type of ErrTypes from any depth up to MaxDepth.  The callables are
\* registered without arguments and stay registered.
NextTraceback ==
    \/ \E f \in Funcs : Register(f, <<>>, {})
    \/ \E t \in Triples : Crash(t)
    \/ NewhookNoOldhook
    \/ OldhookReturns
    \/ \E e \in Candidates : ForNext(e)
    \/ ForEnd
    \/ \E typ \in ErrTypes, d \in 0..MaxDepth : CallbackRaises(typ, d)
    \/ Continue

SpecTraceback == Init /\ [][NextTraceback]_vars

\* SpecAgain: crash events one after another, each compared with the one
\* before it.  Callables are registered with positional arguments only;
\* callbacks end in any of the three ways and may call unregister.
NextAgain ==
    \/ \E f \in Funcs, a \in ArgTuples : Register(f, a, {})
    \/ \E f \in Funcs : Unregister(f)
    \/ \E t \in Triples : Crash(t)
    \/ NewhookNoOldhook
    \/ OldhookReturns
    \/ \E e \in Candidates : ForNext(e)
    \/ ForEnd
    \/ ForRaises
    \/ \E o \in Outcomes : CallbackEnds(o)
    \/ \E f \in Funcs : NestedUnregister(f)
    \/ ContinueRemember

SpecAgain == Init /\ [][NextAgain]_vars

\* FairSpec: _newhook is synchronous code on one thread; once the runtime has
\* called it, it runs on, and every callback's call ends in one of Outcomes.
HookStep ==
    \/ NewhookNoOldhook
    \/ OldhookReturns
    \/ \E e \in Candidates : ForNext(e)
    \/ ForEnd
    \/ \E o \in Outcomes : CallbackEnds(o)

FairSpec == Spec /\ WF_vars(HookStep)

\* ================================================================ properties
CallsOf(f) == {i \in DOMAIN calls : calls[i].func = f}
ReportsOf(f) == {j \in DOMAIN reports : reports[j].func = f}
Ended == pc \in {"returned", "escaped"}
TheTriple == <<exc_args.typ, exc_args.val, exc_args.tb>>

\* C1: when register(f, a, kw) is the last register/unregister on f before a
\* crash event, the event invokes f exactly once, with exactly a and kw,
\* whatever else is registered.
C1_LastRegisterInvokedOnce ==
    Ended =>
        \A f \in Funcs :
            lastop[f].op = "register" =>
                /\ Cardinality(CallsOf(f)) = 1
                /\ \A i \in CallsOf(f) :
                       calls[i] = Entry(f, lastop[f].args, lastop[f].kwargs)

C1_Witness ==
    /\ pc = "returned"
    /\ \E f \in Funcs, g \in Funcs :
          /\ f # g
          /\ lastop[f].op = "register" /\ lastop[f].args # <<>>
          /\ lastop[f].kwargs # {}
          /\ g \in Keys(_handlers)
          /\ Cardinality(CallsOf(f)) = 1

\* C2: the registry never holds two items for one callable, and after
\* register(f, a2, kw2) replaced other stored arguments a crash event invokes
\* f once, with (a2, kw2) and with nothing else.
C2_OneEntryLatestArgs ==
    /\ \A f \in Funcs : Cardinality({e \in _handlers : e.func = f}) <= 1
    /\ Ended =>
          \A f \in Funcs :
              (lastop[f].op = "register" /\ lastop[f].over) =>
                  /\ Cardinality(CallsOf(f)) = 1
                  /\ \A i \in CallsOf(f) :
                         /\ calls[i].args = lastop[f].args
                         /\ calls[i].kwargs = lastop[f].kwargs

C2_Witness ==
    /\ pc = "returned"
    /\ \E f \in Funcs :
          /\ lastop[f].op = "register" /\ lastop[f].over
          /\ Cardinality(CallsOf(f)) = 1

\* C3: once unregister(f) is the last operation on f, no crash event invokes
\* f, however f was registered before.
C3_UnregisteredNotInvoked ==
    \A f \in Funcs : lastop[f].op = "unregister" => CallsOf(f) = {}

C3_Witness ==
    /\ pc = "returned"
    /\ calls # <<>>
    /\ \E f \in Funcs :
          /\ lastop[f].op = "unregister" /\ lastop[f].over
          /\ CallsOf(f) = {}

\* C4: unregister(f) raises nothing; when f is not registered it leaves the
\* registry as it was; and a second unregister(f) right after changes nothing
\* more.
C4_UnregisterNoopIdempotent ==
    [][\A f \in Funcs :
          Unregister(f) =>
              /\ exc' = NoExc
              /\ f \notin Keys(_handlers) => _handlers' = _handlers
              /\ unregister(_handlers', f).handlers = _handlers'
              /\ unregister(_handlers', f).exc = NoExc]_vars

C4_Witness ==
    /\ pc = "idle"
    /\ ret = None
    /\ _handlers # {}
    /\ exc = NoExc
    /\ \E f \in Funcs : lastop[f].op = "unregister" /\ ~lastop[f].over

\* C5: when a callback raises something other than SystemExit, a report of
\* that failure is written, and every registered callback, before or after it
\* in the iteration, is still invoked once in the same crash event.
C5_FailureReportedOthersRun ==
    /\ \A i \in DOMAIN outs :
          outs[i] = "error" => ReportsOf(calls[i].func) # {}
    /\ (Ended /\ \E i \in DOMAIN outs : outs[i] = "error") =>
          \A b \in Keys(_handlers) : Cardinality(CallsOf(b)) = 1

C5_Witness ==
    /\ pc = "returned"
    /\ \E i \in DOMAIN outs, j \in DOMAIN outs :
          i < j /\ outs[i] = "error" /\ outs[j] = "return"
    /\ Len(reports) = 1

\* C6: when a callback raises SystemExit, nothing is reported for it, nothing
\* leaves the interceptor, and every registered callback is still invoked once
\* in the same crash event.
C6_ExitSwallowed ==
    /\ \A i \in DOMAIN outs :
          outs[i] = "SystemExit" => ReportsOf(calls[i].func) = {}
    /\ (Ended /\ \E i \in DOMAIN outs : outs[i] = "SystemExit") =>
          /\ pc = "returned"
          /\ propagated = NoExc
          /\ \A b \in Keys(_handlers) : Cardinality(CallsOf(b)) = 1

C6_Witness ==
    /\ pc = "returned"
    /\ \E i \in DOMAIN outs, j \in DOMAIN outs :
          i < j /\ outs[i] = "SystemExit" /\ outs[j] = "return"
    /\ reports = <<>>

\* C7: when a previous hook was captured, it is called exactly once per crash
\* event, with the triple the interceptor received, and that call is over
\* before the first callback is invoked.
C7_OldhookFirstOnceSameArgs ==
    _oldhook # "None" =>
        /\ pc \in {"run_handlers", "callback", "returned"} =>
              oldcalls = <<TheTriple>>
        /\ calls # <<>> => oldcalls = <<TheTriple>>
        /\ Ended => oldcalls = <<TheTriple>>
        /\ Len(oldcalls) <= 1

C7_Witness ==
    /\ _oldhook # "None"
    /\ pc = "returned"
    /\ calls # <<>>
    /\ exc_args.val = NExc
    /\ oldcalls = <<TheTriple>>

\* C8: whatever way each callback's call ends, nothing propagates out of the
\* interceptor: once called it returns normally, having attempted every
\* registered callback.
C8_HandlerReturns ==
    /\ [](pc # "escaped" /\ propagated = NoExc)
    /\ [](pc = "returned" =>
             /\ Len(outs) = Len(calls)
             /\ \A f \in Keys(_handlers) : Cardinality(CallsOf(f)) = 1)
    /\ (pc = "newhook") ~> (pc = "returned")

C8_Witness ==
    /\ pc = "returned"
    /\ \E i \in DOMAIN outs, j \in DOMAIN outs :
          outs[i] = "error" /\ outs[j] = "SystemExit"

\* C9: register(f, a, kw) raises nothing and returns f, whether or not f was
\* registered before.
C9_RegisterReturnsFunc ==
    [][\A f \in Funcs, a \in ArgTuples, kw \in KwDicts :
          Register(f, a, kw) =>
              /\ ret' = f
              /\ exc' = NoExc
              /\ Entry(f, a, kw) \in _handlers']_vars

C9_Witness ==
    \E f \in Funcs :
        /\ ret = f
        /\ exc = NoExc
        /\ lastop[f].op = "register" /\ lastop[f].over

\* C10: in a crash event where a running callback registered a new callable or
\* unregistered a registered one, every callback registered at the start and
\* not removed is invoked exactly once, none is invoked twice, and no
\* exception leaves the interceptor.
C10_ReentrantCrashContained ==
    (Ended /\ (added # {} \/ removed # {})) =>
        /\ propagated = NoExc
        /\ \A f \in atstart \ removed : Cardinality(CallsOf(f)) = 1
        /\ \A f \in Funcs : Cardinality(CallsOf(f)) <= 1

\* C11: after the import, whatever sequence of register, unregister and crash
\* events follows, _oldhook is still the hook that was installed before the
\* import (None when there was none) and sys.excepthook is still _newhook.
C11_HookCapturedOnce ==
    /\ preload = "absent" => _oldhook = "None"
    /\ preload # "absent" => _oldhook = preload
    /\ excepthook = "_newhook"

C11_Witness ==
    /\ pc = "returned"
    /\ calls # <<>>
    /\ preload = "prevhook"
    /\ _oldhook = "prevhook"
    /\ excepthook = "_newhook"
    /\ \E f \in Funcs, g \in Funcs :
          /\ lastop[f].op = "unregister" /\ lastop[f].over
          /\ lastop[g].op = "register"

\* C12: when no previous hook was captured, a crash event makes no call of a
\* previous hook, raises nothing, and invokes every registered callback
\* exactly once.
C12_NoOldhookStillRuns ==
    _oldhook = "None" =>
        /\ oldcalls = <<>>
        /\ propagated = NoExc
        /\ Ended =>
              /\ pc = "returned"
              /\ \A f \in Keys(_handlers) : Cardinality(CallsOf(f)) = 1
              /\ \A i \in DOMAIN calls : calls[i] \in _handlers

C12_Witness ==
    /\ preload = "absent"
    /\ _oldhook = "None"
    /\ pc = "returned"
    /\ oldcalls = <<>>
    /\ Len(calls) >= 2

\* C13: in a crash event the interceptor has written as many reports as
\* callbacks have raised something other than SystemExit: exactly one for each
\* of those, none for a callback that returned or raised SystemExit.
Failed == {i \in DOMAIN outs : outs[i] = "error"}

C13_OneReportPerFailure ==
    /\ Len(reports) = Cardinality(Failed)
    /\ \A i \in DOMAIN outs :
          Cardinality(ReportsOf(calls[i].func)) =
              Cardinality({k \in Failed : calls[k].func = calls[i].func})

C13_Witness ==
    /\ pc = "returned"
    /\ Len(outs) >= 2
    /\ outs[1] = "SystemExit"
    /\ outs[2] = "error"
    /\ Len(reports) = 1
    /\ ReportsOf(calls[1].func) = {}

\* C14: the report of a failing callback carries the type and the value of
\* the failure and the frames of its traceback without the first one (the
\* frame of _run_handlers), the others in their order, for a traceback of one
\* frame or more.
C14_ReportSkipsFirstFrame ==
    /\ Len(reports) = Len(raised)
    /\ \A j \in DOMAIN reports :
          /\ Len(raised[j].tb) >= 1
          /\ reports[j].typ = raised[j].typ
          /\ reports[j].val = raised[j].val
          /\ Len(reports[j].tb) = Len(raised[j].tb) - 1
          /\ \A k \in DOMAIN reports[j].tb :
                 reports[j].tb[k] = raised[j].tb[k + 1]

C14_Witness ==
    /\ pc = "returned"
    /\ \E i \in DOMAIN reports, j \in DOMAIN reports :
          /\ Len(raised[i].tb) = 1 /\ reports[i].tb = <<>>
          /\ Len(raised[j].tb) = MaxDepth + 1
          /\ Len(reports[j].tb) = MaxDepth
          /\ reports[j].tb[1] = FuncFrame
          /\ reports[i].typ # reports[j].typ

\* C15: when the previous hook raises in a crash event, its exception leaves
\* _newhook and no registered callback is invoked in that event.
C15_OldhookFailureEscapes ==
    oldout = "raise" =>
        /\ pc = "escaped"
        /\ propagated = "OldhookError"
        /\ calls = <<>>
        /\ outs = <<>>
        /\ Len(oldcalls) = 1

C15_Witness ==
    /\ oldout = "raise"
    /\ pc = "escaped"
    /\ Cardinality(Keys(_handlers)) = NFuncs
    /\ calls = <<>>

\* The item of g in the dict H: none when g is not a key, else its one
\* (args, kwargs)
ItemsOf(H, g) == {e \in H : e.func = g}

\* C16: register(f, ...) and unregister(f) change the item of f only: every
\* other callable g is registered after the call exactly when it was before,
\* and with the same stored (args, kwargs).
C16_OnlyOwnEntryChanges ==
    [][\A f \in Funcs :
          ((\E a \in ArgTuples, kw \in KwDicts : Register(f, a, kw))
              \/ Unregister(f)) =>
              \A g \in Funcs \ {f} :
                  ItemsOf(_handlers', g) = ItemsOf(_handlers, g)]_vars

C16_Witness ==
    /\ pc = "idle"
    /\ \E f \in Funcs, g \in Funcs :
          /\ g # f
          /\ lastop[f].op = "unregister" /\ lastop[f].over
          /\ f \notin Keys(_handlers)
          /\ lastop[g].op = "register" /\ lastop[g].over
          /\ ItemsOf(_handlers, g) = {Entry(g, <<7>>, {<<"k", 8>>})}

\* C17: a crash event in which no callback called register or unregister
\* leaves the dict as it was when the event started, however the callbacks
\* ended; and when the event before it was such an event too and the dict was
\* not changed in between, the event invokes the same items as that one did,
\* each once.
C17_HandlersNotConsumed ==
    /\ (pc # "idle" /\ nested = 0) => _handlers = regstart
    /\ (Ended /\ nested = 0 /\ prev.valid) =>
          /\ pc = "returned"
          /\ {calls[i] : i \in DOMAIN calls} = prev.invoked
          /\ Len(calls) = Cardinality(prev.invoked)
          /\ \A f \in Keys(_handlers) : Cardinality(CallsOf(f)) = 1

C17_Witness ==
    /\ pc = "returned"
    /\ nested = 0
    /\ prev.valid
    /\ Len(calls) = NFuncs
    /\ \E i \in DOMAIN calls : calls[i].args = <<7>>
    /\ \E i \in DOMAIN outs, j \in DOMAIN outs :
          outs[i] = "error" /\ outs[j] = "SystemExit"
    /\ _handlers = regstart
====
